---- MODULE Spec2Model ----
(***************************************************************************)
(* Zoho Books / Baserow webhook: the void-and-recreate reconciliation      *)
(* engine of src/index.js, with every ledger call routed through           *)
(* makeZohoRequest (token refresh and single retry).                       *)
(*                                                                         *)
(* The ledger (Zoho Books) is the environment: it holds invoices,          *)
(* payments, credit notes and contacts, and answers every request with     *)
(* success, an authorization failure (401 / code 57) or another failure.   *)
(* One webhook invocation runs at a time; each action is one await point   *)
(* of the handler together with the synchronous code that follows it.      *)
(***************************************************************************)
EXTENDS Integers, Sequences, FiniteSets, TLC

(***************************************************************************)
(* Bounds of the model.                                                    *)
(***************************************************************************)
MaxInvoices == 2        \* invoices the ledger may hold before ingress stops
MaxAmount == 2          \* largest price, Payable Amount, Total Amount Paid
MaxToken == 1           \* access tokens are 0..MaxToken

TxIds == {"T1"}
Tokens == 0..MaxToken

(***************************************************************************)
(* Inbound transactions (req.body.items[0]).  A numeric field is <<>>      *)
(* when it is absent or not a number and <<n>> otherwise.                  *)
(***************************************************************************)
ServiceLists == {<<>>, <<"A">>}
PriceLists == {<<>>, <<MaxAmount>>}
PayableFields == {<<>>, <<MaxAmount - 1>>, <<MaxAmount>>}
PaidFields == {<<>>, <<MaxAmount>>}

Transactions ==
    {t \in [TransactionID : TxIds, PatientName : {"P"},
            Services : ServiceLists, Prices : PriceLists,
            PayableAmount : PayableFields, TotalAmountPaid : PaidFields] :
        \/ Len(t.Services) = 1 /\ Len(t.Prices) = 1      \* a priced service
        \/ /\ Len(t.Services) = 1 /\ Len(t.Prices) = 0   \* its price missing
           /\ t.PayableAmount = <<MaxAmount>>
        \/ /\ Len(t.Services) = 0 /\ Len(t.Prices) = 0   \* no service at all
           /\ t.PayableAmount = <<>>}

\* parseFloat(x) || 0
parseFloatOr0(field) == IF field = <<>> THEN 0 ELSE field[1]

Min(a, b) == IF a <= b THEN a ELSE b

RECURSIVE SumRates(_)
\* line_items.reduce((sum, item) => sum + item.rate, 0)
SumRates(items) ==
    IF items = <<>> THEN 0 ELSE items[1].rate + SumRates(Tail(items))

\* services.map((service, index) => ({description, rate, quantity: 1}))
lineItems(transaction) ==
    [index \in 1..Len(transaction.Services) |->
        [description |-> IF transaction.Services[index] = ""
                         THEN "Service" ELSE transaction.Services[index],
         rate |-> IF index <= Len(transaction.Prices)
                  THEN transaction.Prices[index] ELSE 0,
         quantity |-> 1]]

VARIABLES
    invoices,           \* ledger: sequence of invoices, invoice_id = index
    payments,           \* ledger: set of customer payments
    creditnotes,        \* ledger: sequence of credit notes
    contacts,           \* ledger: sequence of contact names, contact_id = index
    nextPaymentId,      \* ledger: id of the next payment
    ZOHO_ACCESS_TOKEN,  \* the shared access credential
    transaction,        \* the transaction of the current invocation
    call,               \* the ledger operation the handler is awaiting
    mz,                 \* makeZohoRequest: state of the call in flight
    existingInvoice,    \* result of findExistingInvoice
    toDelete,           \* deletePaymentsForInvoice: payments still to delete
    customerId,         \* createInvoice / recordPayment: customer id
    newInvoice,         \* invoice_id returned by createInvoice
    rp,                 \* recordPayment: amount, balance and what it recorded
    status,             \* HTTP status of the response, 0 while none was sent
    log,                \* ledger operations called in this invocation
    hist                \* what happened so far in this invocation

ledger == <<invoices, payments, creditnotes, contacts, nextPaymentId>>
locals == <<transaction, existingInvoice, toDelete, customerId, newInvoice, rp>>
vars == <<invoices, payments, creditnotes, contacts, nextPaymentId,
          ZOHO_ACCESS_TOKEN, transaction, call, mz, existingInvoice, toDelete,
          customerId, newInvoice, rp, status, log, hist>>

NoInvoice == [invoice_id |-> 0, reference_number |-> "",
              has_line_items |-> FALSE, line_items |-> <<>>]
NoTransaction ==
    [TransactionID |-> "", PatientName |-> "", Services |-> <<>>,
     Prices |-> <<>>, PayableAmount |-> <<>>, TotalAmountPaid |-> <<>>]
NoPayment == [amount |-> 0, balance |-> 0, payment |-> 0, credit |-> 0,
              state |-> "none"]
NoCall == [st |-> "idle", retry |-> TRUE, Authorization |-> 0,
           requests |-> 0, refreshes |-> 0, first |-> "none",
           second |-> "none", refreshed |-> FALSE]
NoHist == [found |-> {}, deleteReturned |-> FALSE, deleteRaised |-> FALSE,
           voidOk |-> FALSE, voidRaised |-> FALSE, replay |-> {},
           lookup |-> "none", response |-> <<>>, raised |-> FALSE]

WriteOps == {"deletePayment", "void", "createCustomer", "createInvoice",
             "createPayment", "createCreditNote"}

Init ==
    /\ invoices = <<>>
    /\ payments = {}
    /\ creditnotes = <<>>
    /\ contacts = <<>>
    /\ nextPaymentId = 1
    /\ ZOHO_ACCESS_TOKEN = 0
    /\ transaction = NoTransaction
    /\ call = "idle"
    /\ mz = NoCall
    /\ existingInvoice = NoInvoice
    /\ toDelete = <<>>
    /\ customerId = 0
    /\ newInvoice = 0
    /\ rp = NoPayment
    /\ status = 0
    /\ log = <<>>
    /\ hist = NoHist

(***************************************************************************)
(* makeZohoRequest (src/index.js 38-62) and refreshZohoToken (18-35).      *)
(***************************************************************************)
Failures == {"401", "57", "500"}     \* status 401, Zoho code 57, any other
AuthFailures == {"401", "57"}
Kind(e) == IF e \in AuthFailures THEN "auth" ELSE "err"

\* faulty variant: every failure is taken for an expired token
isTokenExpiredAlways(e) == TRUE

\* error.response.status === 401 || error.response.data.code === 57
isTokenExpired(e) == e = "401" \/ e = "57"

\* faulty variant: the resubmission may itself be retried
retryOfResubmissionAgain == TRUE

\* the retry argument of the resubmission: makeZohoRequest(config, false)
retryOfResubmission == FALSE

\* faulty variant: the header carries the credential read at start-up
AuthorizationHeaderAtStartup(token) == 0

\* Authorization: `Zoho-oauthtoken ${ZOHO_ACCESS_TOKEN}`, read when the
\* request is built
AuthorizationHeader(token) == token

\* makeZohoRequest(config) is entered for operation op: the first request
\* is sent with the stored credential.
Send(op) ==
    /\ call' = op
    /\ mz' = [NoCall EXCEPT !.st = "axios",
                            !.Authorization = AuthorizationHeader(ZOHO_ACCESS_TOKEN),
                            !.requests = 1]
    /\ log' = Append(log, op)
    /\ status' = status

\* res.status(code).json(...)
Respond(code) ==
    /\ call' = "done"
    /\ mz' = NoCall
    /\ log' = log
    /\ status' = code

(***************************************************************************)
(* The ledger's side of each request.                                      *)
(***************************************************************************)
Perms(S) ==
    {s \in [1..Cardinality(S) -> S] :
        \A i, j \in 1..Cardinality(S) : s[i] = s[j] => i = j}

InvoiceIds == DOMAIN invoices
Live(i) == invoices[i].status # "void"
LiveInvoices(ref) ==
    {i \in InvoiceIds : invoices[i].reference_number = ref /\ Live(i)}

\* payment.invoices.some(invoice => invoice.invoice_id === invoiceId)
AppliesTo(payment, invoiceId) ==
    \E k \in DOMAIN payment.invoices :
        payment.invoices[k].invoice_id = invoiceId

\* faulty variant: the filter keeps no payment
paymentsForNoInvoice(customerpayments, invoiceId) == {}

\* faulty variant: the filter keeps every payment
paymentsForAnyInvoice(customerpayments, invoiceId) == customerpayments

\* customerpayments.filter(payment => payment.invoices.some(...))
paymentsForInvoice(customerpayments, invoiceId) ==
    {payment \in customerpayments : AppliesTo(payment, invoiceId)}

\* the amount a payment applies to an invoice
AmountApplied(payment, invoiceId) ==
    IF AppliesTo(payment, invoiceId)
    THEN payment.invoices[1].amount_applied ELSE 0

\* DELETE /customerpayments/{id}: the payment goes, the balance comes back
LedgerDeletePayment(paymentId) ==
    LET gone == {p \in payments : p.payment_id = paymentId} IN
    /\ payments' = payments \ gone
    /\ invoices' = [i \in InvoiceIds |->
            [invoices[i] EXCEPT !.balance =
                IF \E p \in gone : AppliesTo(p, i)
                THEN @ + AmountApplied(CHOOSE p \in gone : AppliesTo(p, i), i)
                ELSE @]]
    /\ UNCHANGED <<creditnotes, contacts, nextPaymentId>>

(***************************************************************************)
(* The webhook handler (src/index.js 306-402) and the operations it calls. *)
(***************************************************************************)
\* the body of POST /invoices built by createInvoice (205-211)
invoiceData(t, customer) ==
    [customer_id |-> customer,
     reference_number |-> t.TransactionID,
     line_items |-> lineItems(t),
     total |-> parseFloatOr0(t.PayableAmount)]

\* existingInvoice.line_items.map(item => item.description)
existingServices(existing) ==
    [k \in DOMAIN existing.line_items |-> existing.line_items[k].description]

\* transaction["Services"]?.map(service => service.value) || []
newServices(t) == t.Services

\* faulty variant: only the totals are compared
detailsChangedTotalsOnly(existing, t) ==
    SumRates(existing.line_items) # parseFloatOr0(t.PayableAmount)

\* JSON.stringify(existingServices) !== JSON.stringify(newServices) ||
\* existingTotal !== newTotal   (355-356)
detailsChanged(existing, t) ==
    \/ existingServices(existing) # newServices(t)
    \/ SumRates(existing.line_items) # parseFloatOr0(t.PayableAmount)

\* !existingInvoice.line_items || existingInvoice.line_items.length === 0
noLineItems(existing) ==
    ~existing.has_line_items \/ Len(existing.line_items) = 0

\* Math.min(amount, invoiceBalance)   (244)
paymentAmount(amount, invoiceBalance) == Min(amount, invoiceBalance)

\* faulty variant: the whole amount is taken for the overpayment
overpaymentUnclamped(amount, invoiceBalance) == amount

\* amount - paymentAmount   (275)
overpaymentAmount(amount, invoiceBalance) ==
    amount - paymentAmount(amount, invoiceBalance)

\* the invoices that are what a successful run on t leaves behind: a live
\* invoice built from t with, when a payment is due, its payment
HoldsResultOf(t) ==
    {i \in InvoiceIds :
        LET paid == Min(parseFloatOr0(t.TotalAmountPaid), invoices[i].total)
            attached == paymentsForInvoice(payments, i) IN
        /\ Live(i)
        /\ invoices[i].reference_number = t.TransactionID
        /\ invoices[i].line_items = lineItems(t)
        /\ invoices[i].total = parseFloatOr0(t.PayableAmount)
        /\ IF paid > 0
           THEN \E p \in attached : p.amount = paid /\ attached = {p}
           ELSE attached = {}}

\* POST /webhook arrives: the handler reads the transaction and calls
\* findExistingInvoice (306-316)
Webhook ==
    /\ call \in {"idle", "done"}
    /\ Len(invoices) < MaxInvoices
    /\ \E t \in Transactions :
        /\ transaction' = t
        /\ hist' = [NoHist EXCEPT !.replay = HoldsResultOf(t)]
    /\ existingInvoice' = NoInvoice
    /\ toDelete' = <<>>
    /\ customerId' = 0
    /\ newInvoice' = 0
    /\ rp' = NoPayment
    /\ call' = "find"
    /\ mz' = [NoCall EXCEPT !.st = "axios",
                            !.Authorization = AuthorizationHeader(ZOHO_ACCESS_TOKEN),
                            !.requests = 1]
    /\ log' = <<"find">>
    /\ status' = 0
    /\ UNCHANGED <<ledger, ZOHO_ACCESS_TOKEN>>

\* POST /webhook arrives with a body that has no items[0]: reading the
\* transaction throws inside the try block (310-313) and the catch
\* responds 500 (398-401)
WebhookMalformed ==
    /\ call \in {"idle", "done"}
    /\ transaction' = NoTransaction
    /\ hist' = [NoHist EXCEPT !.raised = TRUE]
    /\ existingInvoice' = NoInvoice
    /\ toDelete' = <<>>
    /\ customerId' = 0
    /\ newInvoice' = 0
    /\ rp' = NoPayment
    /\ call' = "done"
    /\ mz' = NoCall
    /\ log' = <<>>
    /\ status' = 500
    /\ UNCHANGED <<ledger, ZOHO_ACCESS_TOKEN>>

\* the handler after findExistingInvoice returned (318-395)
AfterLookup(existing) ==
    IF existing # NoInvoice             \* if (existingInvoice)
    THEN IF noLineItems(existing) \/ detailsChanged(existing, transaction)
         THEN Send("listPayments")      \* deletePaymentsForInvoice
         ELSE Respond(200)              \* "No changes detected"
    ELSE Send("findCustomer")           \* createInvoice

\* what GET /invoices?reference_number= shows of invoice i
Listed(i, withItems) ==
    [invoice_id |-> i,
     reference_number |-> invoices[i].reference_number,
     has_line_items |-> withItems,
     line_items |-> IF withItems THEN invoices[i].line_items ELSE <<>>]

\* faulty variant: the remote filter is trusted, every candidate is kept
matchingInvoicesUnfiltered(response, transactionId) == response

\* response.invoices.filter(invoice => invoice.reference_number === id)
matchingInvoices(response, transactionId) ==
    SelectSeq(response, LAMBDA invoice : invoice.reference_number = transactionId)

\* findExistingInvoice: the listing arrives (138-148)
FindInvoiceOk ==
    /\ call = "find" /\ mz.st = "axios"
    /\ \E S \in SUBSET InvoiceIds, withItems \in BOOLEAN :
        /\ \A i \in InvoiceIds :
              invoices[i].reference_number = transaction.TransactionID
                  => i \in S
        /\ \E order \in Perms(S) :
            LET response == [k \in DOMAIN order |-> Listed(order[k], withItems)]
                matching == matchingInvoices(response, transaction.TransactionID)
                found == IF Len(matching) > 0 THEN matching[1] ELSE NoInvoice
            IN  /\ existingInvoice' = found
                /\ hist' = [hist EXCEPT !.lookup = "returned",
                                        !.response = order]
                /\ AfterLookup(found)
    /\ UNCHANGED <<ledger, ZOHO_ACCESS_TOKEN, transaction, toDelete,
                   customerId, newInvoice, rp>>

\* findExistingInvoice: the response has no invoices array, the filter of
\* line 141 throws inside the try block and the catch returns null (149-152)
FindInvoiceMalformed ==
    /\ call = "find" /\ mz.st = "axios"
    /\ existingInvoice' = NoInvoice
    /\ hist' = [hist EXCEPT !.lookup = "failed"]
    /\ AfterLookup(NoInvoice)
    /\ UNCHANGED <<ledger, ZOHO_ACCESS_TOKEN, transaction, toDelete,
                   customerId, newInvoice, rp>>

\* findExistingInvoice: the first matching invoice of the listing carries
\* no invoice_id (138-148); the handler goes on with existingInvoice.invoice_id
\* undefined, which is 0 here
FindInvoiceNoId ==
    /\ call = "find" /\ mz.st = "axios"
    /\ \E i \in InvoiceIds, withItems \in BOOLEAN :
        /\ invoices[i].reference_number = transaction.TransactionID
        /\ LET found == [Listed(i, withItems) EXCEPT !.invoice_id = 0] IN
            /\ existingInvoice' = found
            /\ hist' = [hist EXCEPT !.lookup = "returned", !.response = <<i>>]
            /\ AfterLookup(found)
    /\ UNCHANGED <<ledger, ZOHO_ACCESS_TOKEN, transaction, toDelete,
                   customerId, newInvoice, rp>>

\* voidInvoice(existingInvoice.invoice_id) is called (328, 361): without an
\* invoice id it throws before any request (115-117), its catch rethrows
\* (125-128), the handler's catches rethrow and respond 500 (332-335,
\* 398-401); with one it sends its request (119)
CallVoidInvoice(h) ==
    IF existingInvoice.invoice_id = 0
    THEN /\ hist' = [h EXCEPT !.voidRaised = TRUE, !.raised = TRUE]
         /\ Respond(500)
    ELSE /\ hist' = h
         /\ Send("void")

\* deletePaymentsForInvoice: the payment list arrives (87-104); with no
\* payment to delete it returns and voidInvoice is called
ListPaymentsOk ==
    /\ call = "listPayments" /\ mz.st = "axios"
    /\ LET paymentsOfInvoice ==
               paymentsForInvoice(payments, existingInvoice.invoice_id)
           ids == {p.payment_id : p \in paymentsOfInvoice} IN
        /\ \E order \in Perms(ids) : toDelete' = order
        /\ LET h == [hist EXCEPT !.found = ids,
                                 !.deleteReturned = (ids = {})] IN
            IF ids # {} THEN hist' = h /\ Send("deletePayment")
            ELSE CallVoidInvoice(h)
    /\ UNCHANGED <<ledger, ZOHO_ACCESS_TOKEN, transaction, existingInvoice,
                   customerId, newInvoice, rp>>

\* deletePayment: the ledger deleted the payment (67-71); the loop goes to
\* the next payment, or deletePaymentsForInvoice returns and voidInvoice
\* is called
DeletePaymentOk ==
    /\ call = "deletePayment" /\ mz.st = "axios"
    /\ LedgerDeletePayment(Head(toDelete))
    /\ toDelete' = Tail(toDelete)
    /\ LET h == [hist EXCEPT !.deleteReturned = (Tail(toDelete) = <<>>)] IN
        IF Tail(toDelete) # <<>> THEN hist' = h /\ Send("deletePayment")
        ELSE CallVoidInvoice(h)
    /\ UNCHANGED <<ZOHO_ACCESS_TOKEN, transaction, existingInvoice,
                   customerId, newInvoice, rp>>

\* voidInvoice: the ledger voided the invoice (119-124); createInvoice
\* starts with findOrCreateCustomer (338, 371, 190)
VoidOk ==
    /\ call = "void" /\ mz.st = "axios"
    /\ invoices' = [invoices EXCEPT ![existingInvoice.invoice_id].status = "void"]
    /\ hist' = [hist EXCEPT !.voidOk = TRUE]
    /\ Send("findCustomer")
    /\ UNCHANGED <<payments, creditnotes, contacts, nextPaymentId,
                   ZOHO_ACCESS_TOKEN, locals>>

\* faulty variant: a contact is created whatever the search returned
FindCustomerAlwaysCreates ==
    /\ call = "findCustomer" /\ mz.st = "axios"
    /\ customerId' = customerId
    /\ Send("createCustomer")
    /\ UNCHANGED <<ledger, ZOHO_ACCESS_TOKEN, transaction, existingInvoice,
                   toDelete, newInvoice, rp, hist>>

\* findOrCreateCustomer: the contact search arrives (164-175)
FindCustomerOk ==
    /\ call = "findCustomer" /\ mz.st = "axios"
    /\ LET found == {c \in DOMAIN contacts : contacts[c] = transaction.PatientName} IN
        IF found # {}
        THEN /\ \E c \in found : customerId' = c     \* contacts[0].contact_id
             /\ Send("createInvoice")
        ELSE /\ customerId' = customerId
             /\ Send("createCustomer")
    /\ UNCHANGED <<ledger, ZOHO_ACCESS_TOKEN, transaction, existingInvoice,
                   toDelete, newInvoice, rp, hist>>

\* findOrCreateCustomer: the ledger created the contact (169-174);
\* createInvoice posts the invoice (215)
CreateCustomerOk ==
    /\ call = "createCustomer" /\ mz.st = "axios"
    /\ contacts' = Append(contacts, transaction.PatientName)
    /\ customerId' = Len(contacts) + 1
    /\ Send("createInvoice")
    /\ UNCHANGED <<invoices, payments, creditnotes, nextPaymentId,
                   ZOHO_ACCESS_TOKEN, transaction, existingInvoice, toDelete,
                   newInvoice, rp, hist>>

\* the handler after createInvoice returned (340-346, 373-379, 388-394)
AfterCreateInvoice(totalAmountPaid) ==
    IF totalAmountPaid > 0
    THEN /\ Send("getInvoice")          \* recordPayment(newInvoice.invoice_id, ...)
         /\ rp' = [NoPayment EXCEPT !.amount = totalAmountPaid,
                                    !.state = "running"]
    ELSE /\ Respond(200)
         /\ rp' = rp

\* createInvoice: the ledger created the invoice (215-221)
CreateInvoiceOk ==
    /\ call = "createInvoice" /\ mz.st = "axios"
    /\ LET data == invoiceData(transaction, customerId) IN
        invoices' = Append(invoices,
            [reference_number |-> data.reference_number,
             customer_id |-> data.customer_id,
             line_items |-> data.line_items,
             total |-> data.total,
             balance |-> data.total,
             status |-> "draft"])
    /\ newInvoice' = Len(invoices) + 1
    /\ AfterCreateInvoice(parseFloatOr0(transaction.TotalAmountPaid))
    /\ UNCHANGED <<payments, creditnotes, contacts, nextPaymentId,
                   ZOHO_ACCESS_TOKEN, transaction, existingInvoice, toDelete,
                   customerId, hist>>

\* recordPayment: the invoice arrives (232-249)
GetInvoiceOk ==
    /\ call = "getInvoice" /\ mz.st = "axios"
    /\ customerId' = invoices[newInvoice].customer_id
    /\ LET invoiceBalance == invoices[newInvoice].balance IN
        IF paymentAmount(rp.amount, invoiceBalance) <= 0
        THEN /\ rp' = [rp EXCEPT !.balance = invoiceBalance,
                                 !.state = "returned"]
             /\ Respond(200)
        ELSE /\ rp' = [rp EXCEPT !.balance = invoiceBalance]
             /\ Send("createPayment")
    /\ UNCHANGED <<ledger, ZOHO_ACCESS_TOKEN, transaction, existingInvoice,
                   toDelete, newInvoice, hist>>

\* recordPayment: the ledger created the payment (267-276)
CreatePaymentOk ==
    /\ call = "createPayment" /\ mz.st = "axios"
    /\ LET applied == paymentAmount(rp.amount, rp.balance) IN
        /\ payments' = payments \cup
              {[payment_id |-> nextPaymentId,
                customer_id |-> customerId,
                amount |-> applied,
                invoices |-> <<[invoice_id |-> newInvoice,
                                amount_applied |-> applied]>>]}
        /\ nextPaymentId' = nextPaymentId + 1
        /\ invoices' = [invoices EXCEPT ![newInvoice].balance = @ - applied]
        /\ IF overpaymentAmount(rp.amount, rp.balance) > 0
           THEN /\ rp' = [rp EXCEPT !.payment = applied]
                /\ Send("createCreditNote")
           ELSE /\ rp' = [rp EXCEPT !.payment = applied, !.state = "returned"]
                /\ Respond(200)
    /\ UNCHANGED <<creditnotes, contacts, ZOHO_ACCESS_TOKEN, transaction,
                   existingInvoice, toDelete, customerId, newInvoice, hist>>

\* recordPayment: the ledger created the credit note (292-298); the handler
\* responds (397)
CreateCreditNoteOk ==
    /\ call = "createCreditNote" /\ mz.st = "axios"
    /\ creditnotes' = Append(creditnotes,
            [customer_id |-> customerId,
             rate |-> overpaymentAmount(rp.amount, rp.balance)])
    /\ rp' = [rp EXCEPT !.credit = overpaymentAmount(rp.amount, rp.balance),
                        !.state = "returned"]
    /\ Respond(200)
    /\ UNCHANGED <<invoices, payments, contacts, nextPaymentId,
                   ZOHO_ACCESS_TOKEN, transaction, existingInvoice, toDelete,
                   customerId, newInvoice, hist>>

(***************************************************************************)
(* Failures.  makeZohoRequest rejects (mz.st = "throw") and the catch      *)
(* block of the operation that awaited it runs.                            *)
(***************************************************************************)
Thrown(ops) == mz.st = "throw" /\ call \in ops

\* faulty variant: the failed lookup is rethrown and the handler answers 500
findExistingInvoiceRethrows ==
    /\ Thrown({"find"})
    /\ existingInvoice' = NoInvoice
    /\ hist' = [hist EXCEPT !.lookup = "failed", !.raised = TRUE]
    /\ Respond(500)
    /\ UNCHANGED <<ledger, ZOHO_ACCESS_TOKEN, transaction, toDelete,
                   customerId, newInvoice, rp>>

\* findExistingInvoice: catch, return null (149-152); the handler goes on
\* as if no invoice existed
findExistingInvoiceCatch ==
    /\ Thrown({"find"})
    /\ existingInvoice' = NoInvoice
    /\ hist' = [hist EXCEPT !.lookup = "failed"]
    /\ AfterLookup(NoInvoice)
    /\ UNCHANGED <<ledger, ZOHO_ACCESS_TOKEN, transaction, toDelete,
                   customerId, newInvoice, rp>>

\* faulty variant: a failed deletion is logged and voidInvoice is called
deletePaymentFailureIgnored ==
    /\ Thrown({"listPayments", "deletePayment"})
    /\ hist' = hist
    /\ Send("void")
    /\ UNCHANGED <<ledger, ZOHO_ACCESS_TOKEN, locals>>

\* faulty variant: the handler's inner catch does not rethrow, so the
\* handler goes on to createInvoice
deletePaymentFailureNotRethrown ==
    /\ Thrown({"listPayments", "deletePayment"})
    /\ hist' = [hist EXCEPT !.deleteRaised = TRUE]
    /\ Send("findCustomer")
    /\ UNCHANGED <<ledger, ZOHO_ACCESS_TOKEN, locals>>

\* deletePayment / deletePaymentsForInvoice rethrow (72-75, 105-108); the
\* handler's inner catch rethrows (332-335, 365-368), the outer one
\* responds 500 (398-401)
deletePaymentsForInvoiceCatch ==
    /\ Thrown({"listPayments", "deletePayment"})
    /\ hist' = [hist EXCEPT !.deleteRaised = TRUE, !.raised = TRUE]
    /\ Respond(500)
    /\ UNCHANGED <<ledger, ZOHO_ACCESS_TOKEN, locals>>

\* faulty variant: a failed void does not stop the handler
voidFailureNotRethrown ==
    /\ Thrown({"void"})
    /\ hist' = [hist EXCEPT !.voidRaised = TRUE]
    /\ Send("findCustomer")
    /\ UNCHANGED <<ledger, ZOHO_ACCESS_TOKEN, locals>>

\* faulty variant: the failure of the void is swallowed and no response
\* is sent
voidFailureUnanswered ==
    /\ Thrown({"void"})
    /\ UNCHANGED vars

\* voidInvoice rethrows (125-128); inner catch, outer catch, 500
voidInvoiceCatch ==
    /\ Thrown({"void"})
    /\ hist' = [hist EXCEPT !.voidRaised = TRUE, !.raised = TRUE]
    /\ Respond(500)
    /\ UNCHANGED <<ledger, ZOHO_ACCESS_TOKEN, locals>>

\* faulty variant: the void of the old invoice is undone before the answer
createInvoiceFailureCompensated ==
    /\ Thrown({"findCustomer", "createCustomer", "createInvoice"})
    /\ hist' = [hist EXCEPT !.raised = TRUE]
    /\ Respond(500)
    /\ invoices' = [i \in InvoiceIds |->
                      IF i = existingInvoice.invoice_id
                      THEN [invoices[i] EXCEPT !.status = "draft"]
                      ELSE invoices[i]]
    /\ UNCHANGED <<payments, creditnotes, contacts, nextPaymentId,
                   ZOHO_ACCESS_TOKEN, locals>>

\* findOrCreateCustomer / createInvoice rethrow (176-179, 222-225); 500
createInvoiceCatch ==
    /\ Thrown({"findCustomer", "createCustomer", "createInvoice"})
    /\ hist' = [hist EXCEPT !.raised = TRUE]
    /\ Respond(500)
    /\ UNCHANGED <<ledger, ZOHO_ACCESS_TOKEN, locals>>

\* faulty variant: the failure is logged and the handler answers 200
recordPaymentFailureLogged ==
    /\ Thrown({"getInvoice", "createPayment", "createCreditNote"})
    /\ rp' = [rp EXCEPT !.state = "raised"]
    /\ hist' = [hist EXCEPT !.raised = TRUE]
    /\ Respond(200)
    /\ UNCHANGED <<ledger, ZOHO_ACCESS_TOKEN, transaction, existingInvoice,
                   toDelete, customerId, newInvoice>>

\* recordPayment rethrows (299-302); 500
recordPaymentCatch ==
    /\ Thrown({"getInvoice", "createPayment", "createCreditNote"})
    /\ rp' = [rp EXCEPT !.state = "raised"]
    /\ hist' = [hist EXCEPT !.raised = TRUE]
    /\ Respond(500)
    /\ UNCHANGED <<ledger, ZOHO_ACCESS_TOKEN, transaction, existingInvoice,
                   toDelete, customerId, newInvoice>>

\* the response to a request, recorded as the first or the second one
Answered(kind) ==
    [mz EXCEPT !.first = IF @ = "none" THEN kind ELSE @,
               !.second = IF mz.first = "none" THEN "none" ELSE kind]

\* the ledger rejects the request as unauthorized and retry is set: the
\* token refresh is requested (49-55)
TokenExpired ==
    /\ mz.st = "axios"
    /\ \E e \in Failures :
        /\ isTokenExpired(e) /\ mz.retry
        /\ mz' = [Answered(Kind(e)) EXCEPT !.st = "refresh",
                                           !.refreshes = @ + 1]
    /\ UNCHANGED <<ledger, ZOHO_ACCESS_TOKEN, locals, call, status, log, hist>>

\* the ledger fails the request and it is not retried: makeZohoRequest
\* throws "API request failed" (57-60)
RequestFailed ==
    /\ mz.st = "axios"
    /\ \E e \in Failures :
        /\ ~(isTokenExpired(e) /\ mz.retry)
        /\ mz' = [Answered(Kind(e)) EXCEPT !.st = "throw"]
    /\ UNCHANGED <<ledger, ZOHO_ACCESS_TOKEN, locals, call, status, log, hist>>

\* faulty variant: the request is sent again with the headers it had
RefreshOkKeepsHeader ==
    /\ mz.st = "refresh"
    /\ \E token \in Tokens :
        /\ ZOHO_ACCESS_TOKEN' = token
        /\ mz' = [mz EXCEPT !.st = "axios",
                            !.retry = retryOfResubmission,
                            !.requests = @ + 1,
                            !.refreshed = TRUE]
    /\ UNCHANGED <<ledger, locals, call, status, log, hist>>

\* refreshZohoToken succeeds (21-30) and the request is sent again with
\* retry = false (56, 41-46)
RefreshOk ==
    /\ mz.st = "refresh"
    /\ \E token \in Tokens :
        /\ ZOHO_ACCESS_TOKEN' = token
        /\ mz' = [mz EXCEPT !.st = "axios",
                            !.retry = retryOfResubmission,
                            !.Authorization = AuthorizationHeader(token),
                            !.requests = @ + 1,
                            !.refreshed = TRUE]
    /\ UNCHANGED <<ledger, locals, call, status, log, hist>>

\* faulty variant: after a failed refresh the request is sent again
RefreshFailedResubmits ==
    /\ mz.st = "refresh"
    /\ mz' = [mz EXCEPT !.st = "axios", !.retry = retryOfResubmission,
                        !.requests = @ + 1]
    /\ UNCHANGED <<ledger, ZOHO_ACCESS_TOKEN, locals, call, status, log, hist>>

\* refreshZohoToken fails (31-34): makeZohoRequest fails with it, without
\* sending the request again
RefreshFailed ==
    /\ mz.st = "refresh"
    /\ mz' = [mz EXCEPT !.st = "throw"]
    /\ UNCHANGED <<ledger, ZOHO_ACCESS_TOKEN, locals, call, status, log, hist>>

Next ==
    \/ Webhook
    \/ WebhookMalformed
    \/ FindInvoiceOk
    \/ FindInvoiceMalformed
    \/ FindInvoiceNoId
    \/ ListPaymentsOk
    \/ DeletePaymentOk
    \/ VoidOk
    \/ FindCustomerOk
    \/ CreateCustomerOk
    \/ CreateInvoiceOk
    \/ GetInvoiceOk
    \/ CreatePaymentOk
    \/ CreateCreditNoteOk
    \/ TokenExpired
    \/ RequestFailed
    \/ RefreshOk
    \/ RefreshFailed
    \/ findExistingInvoiceCatch
    \/ deletePaymentsForInvoiceCatch
    \/ voidInvoiceCatch
    \/ createInvoiceCatch
    \/ recordPaymentCatch

Spec == Init /\ [][Next]_vars

\* the steps of an invocation that has started: the answer to the request
\* in flight, or the catch block that runs after it failed
Progress ==
    \/ FindInvoiceOk
    \/ FindInvoiceMalformed
    \/ FindInvoiceNoId
    \/ ListPaymentsOk
    \/ DeletePaymentOk
    \/ VoidOk
    \/ FindCustomerOk
    \/ CreateCustomerOk
    \/ CreateInvoiceOk
    \/ GetInvoiceOk
    \/ CreatePaymentOk
    \/ CreateCreditNoteOk
    \/ TokenExpired
    \/ RequestFailed
    \/ RefreshOk
    \/ RefreshFailed
    \/ findExistingInvoiceCatch
    \/ deletePaymentsForInvoiceCatch
    \/ voidInvoiceCatch
    \/ createInvoiceCatch
    \/ recordPaymentCatch

(***************************************************************************)
(* findExistingInvoice on its own: the ledger holds invoices with any of   *)
(* RefNumbers, the remote reference filter may return invoices whose       *)
(* reference number is not the transaction id, and the lookup returns.     *)
(***************************************************************************)
RefNumbers == {"T1", "T10", "t1"}
LookupIds == {"T1", "T10"}

LedgerInvoices ==
    [reference_number : RefNumbers, customer_id : {1}, line_items : {<<>>},
     total : {0}, balance : {0}, status : {"draft", "void"}]

InitFind ==
    /\ invoices \in UNION {[1..n -> LedgerInvoices] : n \in 0..MaxInvoices}
    /\ payments = {}
    /\ creditnotes = <<>>
    /\ contacts = <<"P">>
    /\ nextPaymentId = 1
    /\ ZOHO_ACCESS_TOKEN = 0
    /\ \E t \in Transactions, id \in LookupIds :
          transaction = [t EXCEPT !.TransactionID = id]
    /\ call = "find"
    /\ mz = [NoCall EXCEPT !.st = "axios",
                           !.Authorization = AuthorizationHeader(ZOHO_ACCESS_TOKEN),
                           !.requests = 1]
    /\ existingInvoice = NoInvoice
    /\ toDelete = <<>>
    /\ customerId = 0
    /\ newInvoice = 0
    /\ rp = NoPayment
    /\ status = 0
    /\ log = <<"find">>
    /\ hist = NoHist

NextFind == FindInvoiceOk

SpecFind == InitFind /\ [][NextFind]_vars

(***************************************************************************)
(* findPaymentByInvoiceId on its own, in its three versions                *)
(* (src/unnamed/part_001 529-557, part_000 75-92, part_000 315-330).  The  *)
(* ledger answers GET /customerpayments?invoice_id=&customer_id= with any  *)
(* payments of the customer, in any order; a payment may come without an   *)
(* invoices array, which is the empty sequence here.                       *)
(***************************************************************************)
NoLedgerPayment == [payment_id |-> 0, customer_id |-> 0, amount |-> 0,
                    invoices |-> <<>>]

\* customerpayments.find(payment => payment.invoices &&
\*     payment.invoices.some(inv => inv.invoice_id === invoiceId)) || null
findPaymentByInvoiceId(customerpayments, invoiceId) ==
    LET matching == SelectSeq(customerpayments,
                              LAMBDA payment : AppliesTo(payment, invoiceId)) IN
    IF Len(matching) > 0 THEN matching[1] ELSE NoLedgerPayment

\* part_000 322-325: return response.customerpayments[0]
findPaymentByInvoiceIdFirst(customerpayments, invoiceId) ==
    IF Len(customerpayments) > 0 THEN customerpayments[1] ELSE NoLedgerPayment

PaymentLookupVersions == {"part_001:529", "part_000:75", "part_000:315"}

\* the payments of customer 1: one applied to invoice 1, one to invoice 2,
\* one applied to both, one listed without its invoices
CustomerPayments ==
    {[payment_id |-> 1, customer_id |-> 1, amount |-> 1,
      invoices |-> <<[invoice_id |-> 1, amount_applied |-> 1]>>],
     [payment_id |-> 2, customer_id |-> 1, amount |-> 1,
      invoices |-> <<[invoice_id |-> 2, amount_applied |-> 1]>>],
     [payment_id |-> 3, customer_id |-> 1, amount |-> 2,
      invoices |-> <<[invoice_id |-> 2, amount_applied |-> 1],
                     [invoice_id |-> 1, amount_applied |-> 1]>>],
     [payment_id |-> 4, customer_id |-> 1, amount |-> 1, invoices |-> <<>>]}

InitPayments ==
    /\ invoices = <<>>
    /\ payments \in SUBSET CustomerPayments
    /\ creditnotes = <<>>
    /\ contacts = <<"P">>
    /\ nextPaymentId = 5
    /\ ZOHO_ACCESS_TOKEN = 0
    /\ transaction = NoTransaction
    /\ call = "findPayment"
    /\ mz = [NoCall EXCEPT !.st = "axios",
                           !.Authorization = AuthorizationHeader(ZOHO_ACCESS_TOKEN),
                           !.requests = 1]
    /\ existingInvoice = NoInvoice
    /\ toDelete = <<>>
    /\ customerId = 1
    /\ newInvoice = 0
    /\ rp = NoPayment
    /\ status = 0
    /\ log = <<"findPayment">>
    /\ \E version \in PaymentLookupVersions, invoiceId \in {1, 2} :
          hist = [version |-> version, invoiceId |-> invoiceId,
                  response |-> <<>>, returned |-> FALSE,
                  result |-> NoLedgerPayment]

\* the payment list arrives and findPaymentByInvoiceId returns
FindPaymentReturns ==
    /\ call = "findPayment" /\ mz.st = "axios"
    /\ \E S \in SUBSET payments : \E order \in Perms(S) :
          hist' = [hist EXCEPT
                     !.response = order,
                     !.returned = TRUE,
                     !.result = IF hist.version = "part_000:315"
                                THEN findPaymentByInvoiceIdFirst(order, hist.invoiceId)
                                ELSE findPaymentByInvoiceId(order, hist.invoiceId)]
    /\ call' = "returned"
    /\ mz' = NoCall
    /\ UNCHANGED <<ledger, ZOHO_ACCESS_TOKEN, locals, status, log>>

NextPayments == FindPaymentReturns

SpecPayments == InitPayments /\ [][NextPayments]_vars

(***************************************************************************)
(* The update-only engines: src/unnamed/part_000 161-222 (the payment of   *)
(* the invoice is deleted and the invoice updated) and src/unnamed/part_001*)
(* 687-752 (the same, then a payment is created under the strict policy).  *)
(* Both read the services from "Services (link)".  One invocation runs     *)
(* against a ledger that holds at most one invoice of the transaction.     *)
(***************************************************************************)
Engines == {"part_000:161", "part_001:687"}

NoExistingInvoice == "No existing invoice found. Script stopped."
Processed == "Invoice and payment processed successfully."
ExceedsBalance == "Payment amount exceeds the invoice balance. Process stopped."
ErrorProcessing == "Error processing webhook"

UpdateTransactions ==
    [TransactionID : TxIds, ServicesLink : ServiceLists, Prices : {<<MaxAmount>>},
     PayableAmount : PayableFields, Discount : {<<>>, <<1>>},
     TotalAmountPaid : {<<>>, <<MaxAmount - 1>>, <<MaxAmount>>}]

\* services.map((service, index) => ({description: service.value || "Service",
\*     rate: parseFloat(prices[index]?.value) || 0, quantity: 1}))
updateLineItems(t) ==
    [index \in DOMAIN t.ServicesLink |->
        [description |-> IF t.ServicesLink[index] = "" THEN "Service"
                         ELSE t.ServicesLink[index],
         rate |-> IF index \in DOMAIN t.Prices THEN t.Prices[index] ELSE 0,
         quantity |-> 1]]

\* the body of PUT /invoices/{id} built by updateInvoice
\* (part_001 591-598, part_000 129-136)
updateInvoiceData(t) ==
    [line_items |-> updateLineItems(t),
     total |-> parseFloatOr0(t.PayableAmount),
     discount |-> parseFloatOr0(t.Discount),
     discount_type |-> "entity_level",
     is_discount_before_tax |-> TRUE]

\* what is applied to invoice i by the payments of the ledger
Applied(i) ==
    LET attached == paymentsForInvoice(payments, i) IN
    IF attached = {} THEN 0
    ELSE AmountApplied(CHOOSE p \in attached : TRUE, i)

\* the ledgers an invocation may find: no invoice, or invoice 1 of the
\* transaction with no payment, with payment 1 applied to it, or with
\* payment 2 of the same customer that is applied to no invoice
UpdateLedgers ==
    {[invoices |-> <<>>, payments |-> {}]}
    \cup
    {[invoices |-> <<[reference_number |-> "T1", customer_id |-> 1,
                      line_items |-> <<[description |-> "A", rate |-> total,
                                        quantity |-> 1]>>,
                      total |-> total, balance |-> total - paid,
                      discount |-> 0, status |-> "sent"]>>,
      payments |-> IF paid > 0
                   THEN {[payment_id |-> 1, customer_id |-> 1, amount |-> paid,
                          invoices |-> <<[invoice_id |-> 1,
                                          amount_applied |-> paid]>>]}
                   ELSE other] :
        total \in 1..MaxAmount, paid \in 0..MaxAmount,
        other \in {{}, {[payment_id |-> 2, customer_id |-> 1, amount |-> 1,
                         invoices |-> <<>>]}}}

NoUpdateHist ==
    [engine |-> "", lookup |-> "none", findRaised |-> FALSE,
     deleteRaised |-> FALSE, updated |-> FALSE, raised |-> FALSE,
     rejected |-> FALSE, message |-> "", before |-> <<>>]

InitUpdate ==
    /\ \E l \in UpdateLedgers :
        /\ \A i \in DOMAIN l.invoices : l.invoices[i].balance >= 0
        /\ invoices = l.invoices
        /\ payments = l.payments
        /\ \E engine \in Engines :
              hist = [NoUpdateHist EXCEPT !.engine = engine,
                                          !.before = <<l.invoices, l.payments>>]
    /\ creditnotes = <<>>
    /\ contacts = <<"P">>
    /\ nextPaymentId = 3
    /\ ZOHO_ACCESS_TOKEN = 0
    /\ transaction \in UpdateTransactions
    /\ call = "find"
    /\ mz = [NoCall EXCEPT !.st = "axios",
                           !.Authorization = AuthorizationHeader(ZOHO_ACCESS_TOKEN),
                           !.requests = 1]
    /\ existingInvoice = NoInvoice
    /\ toDelete = <<>>
    /\ customerId = 0
    /\ newInvoice = 0
    /\ rp = NoPayment
    /\ status = 0
    /\ log = <<"find">>

\* res.status(code).json({message})
RespondWith(code, message, h) ==
    /\ Respond(code)
    /\ hist' = [h EXCEPT !.message = message,
                         !.raised = (code = 500),
                         !.rejected = (code = 400)]

\* the handler calls updateInvoice (part_000 187-204, part_001 726): in
\* part_000 updateInvoice first fetches the invoice (113-116), in part_001
\* it sends the update at once (602-606)
CallUpdateInvoice(h) ==
    /\ hist' = h
    /\ IF h.engine = "part_000:161"
       THEN Send("invoiceTotal") ELSE Send("updateInvoice")

\* the handler once findExistingInvoice returned existing
\* (part_000 171-217, part_001 699-747)
AfterUpdateLookup(existing, h) ==
    IF existing # NoInvoice
    THEN /\ hist' = h
         /\ Send("findPayment")
    ELSE RespondWith(200, NoExistingInvoice, h)

\* findExistingInvoice: the listing arrives (part_000 66-67, part_001 514-521)
LookupReturns ==
    /\ call = "find" /\ mz.st = "axios"
    /\ \E withItems \in BOOLEAN :
        LET response == [k \in DOMAIN invoices |-> Listed(k, withItems)]
            matching == matchingInvoices(response, transaction.TransactionID)
            found == IF Len(matching) > 0 THEN matching[1] ELSE NoInvoice
        IN  /\ existingInvoice' = found
            /\ AfterUpdateLookup(found, [hist EXCEPT !.lookup = "returned"])
    /\ UNCHANGED <<ledger, ZOHO_ACCESS_TOKEN, transaction, toDelete,
                   customerId, newInvoice, rp>>

\* faulty variant: the failed lookup is rethrown, the handler answers 500
LookupFailureRethrown ==
    /\ Thrown({"find"})
    /\ existingInvoice' = NoInvoice
    /\ RespondWith(500, ErrorProcessing, [hist EXCEPT !.lookup = "failed"])
    /\ UNCHANGED <<ledger, ZOHO_ACCESS_TOKEN, transaction, toDelete,
                   customerId, newInvoice, rp>>

\* findExistingInvoice: catch, return null (part_000 68-71, part_001 522-525)
LookupFails ==
    /\ Thrown({"find"})
    /\ existingInvoice' = NoInvoice
    /\ AfterUpdateLookup(NoInvoice, [hist EXCEPT !.lookup = "failed"])
    /\ UNCHANGED <<ledger, ZOHO_ACCESS_TOKEN, transaction, toDelete,
                   customerId, newInvoice, rp>>

\* findPaymentByInvoiceId: the payment list arrives (part_000 81-87,
\* part_001 536-552); a payment found is deleted (part_000 187-190,
\* part_001 712-715), otherwise the invoice is updated
FindPaymentOk ==
    /\ call = "findPayment" /\ mz.st = "axios"
    /\ \E S \in SUBSET payments : \E order \in Perms(S) :
        /\ paymentsForInvoice(payments, existingInvoice.invoice_id) \subseteq S
        /\ LET existingPayment ==
                   findPaymentByInvoiceId(order, existingInvoice.invoice_id) IN
            IF existingPayment # NoLedgerPayment
            THEN /\ toDelete' = <<existingPayment.payment_id>>
                 /\ hist' = hist
                 /\ Send("deletePayment")
            ELSE /\ toDelete' = <<>>
                 /\ CallUpdateInvoice(hist)
    /\ UNCHANGED <<ledger, ZOHO_ACCESS_TOKEN, transaction, existingInvoice,
                   customerId, newInvoice, rp>>

\* findPaymentByInvoiceId rethrows (part_000 88-91, part_001 553-556) and
\* the handler takes it for "no payment" (part_000 178-181, part_001 707-710)
FindPaymentFails ==
    /\ Thrown({"findPayment"})
    /\ CallUpdateInvoice([hist EXCEPT !.findRaised = TRUE])
    /\ UNCHANGED <<ledger, ZOHO_ACCESS_TOKEN, locals>>

\* deletePayment: the ledger deleted the payment (part_000 97-101,
\* part_001 562-567)
PaymentDeleted ==
    /\ call = "deletePayment" /\ mz.st = "axios"
    /\ LedgerDeletePayment(Head(toDelete))
    /\ toDelete' = <<>>
    /\ CallUpdateInvoice(hist)
    /\ UNCHANGED <<ZOHO_ACCESS_TOKEN, transaction, existingInvoice,
                   customerId, newInvoice, rp>>

\* deletePayment rethrows (part_000 102-105, part_001 568-571).  part_000
\* rethrows again and answers 500 (193-198, 219-221); part_001 logs the
\* failure and goes on to updateInvoice (716-726)
DeletePaymentFails ==
    /\ Thrown({"deletePayment"})
    /\ IF hist.engine = "part_000:161"
       THEN RespondWith(500, ErrorProcessing,
                        [hist EXCEPT !.deleteRaised = TRUE])
       ELSE CallUpdateInvoice([hist EXCEPT !.deleteRaised = TRUE])
    /\ UNCHANGED <<ledger, ZOHO_ACCESS_TOKEN, locals>>

\* faulty variant: the payment is never found to exceed the balance
exceedsBalanceNever(amount, invoiceBalance) == FALSE

\* amount > invoiceBalance   (part_001 631)
exceedsBalance(amount, invoiceBalance) == amount > invoiceBalance

\* updateInvoice of part_000: the invoice arrives (113-123); a Payable
\* Amount above its total is refused, which the handler answers with 500
\* (154-157, 205-208, 219-221)
InvoiceTotalOk ==
    /\ call = "invoiceTotal" /\ mz.st = "axios"
    /\ LET invoiceTotal == invoices[existingInvoice.invoice_id].total
           payableAmount == parseFloatOr0(transaction.PayableAmount) IN
        IF payableAmount > invoiceTotal
        THEN RespondWith(500, ErrorProcessing, hist)
        ELSE hist' = hist /\ Send("updateInvoice")
    /\ UNCHANGED <<ledger, ZOHO_ACCESS_TOKEN, locals>>

\* updateInvoice: the ledger updated the invoice (part_000 141-147,
\* part_001 602-608), its balance is the new total less what is applied to
\* it; a total below what is applied is not accepted.  part_000 responds
\* (213); part_001 goes on to createPayment when Total Amount Paid > 0
\* (729-743)
UpdateInvoiceOk ==
    /\ call = "updateInvoice" /\ mz.st = "axios"
    /\ LET id == existingInvoice.invoice_id
           data == updateInvoiceData(transaction)
           totalAmountPaid == parseFloatOr0(transaction.TotalAmountPaid) IN
        /\ data.total >= Applied(id)
        /\ invoices' = [invoices EXCEPT ![id].line_items = data.line_items,
                                        ![id].total = data.total,
                                        ![id].discount = data.discount,
                                        ![id].balance = data.total - Applied(id)]
        /\ IF hist.engine = "part_001:687" /\ totalAmountPaid > 0
           THEN /\ rp' = [NoPayment EXCEPT !.amount = totalAmountPaid,
                                           !.state = "running"]
                /\ newInvoice' = id
                /\ hist' = [hist EXCEPT !.updated = TRUE]
                /\ Send("getInvoice")
           ELSE /\ rp' = rp
                /\ newInvoice' = newInvoice
                /\ RespondWith(200, Processed, [hist EXCEPT !.updated = TRUE])
    /\ UNCHANGED <<payments, creditnotes, contacts, nextPaymentId,
                   ZOHO_ACCESS_TOKEN, transaction, existingInvoice, toDelete,
                   customerId>>

\* faulty variant: a failed update is logged and the payment step follows
UpdateFailureIgnored ==
    /\ Thrown({"invoiceTotal", "updateInvoice"})
    /\ rp' = [NoPayment EXCEPT !.amount = parseFloatOr0(transaction.TotalAmountPaid),
                               !.state = "running"]
    /\ newInvoice' = existingInvoice.invoice_id
    /\ hist' = hist
    /\ Send("getInvoice")
    /\ UNCHANGED <<ledger, ZOHO_ACCESS_TOKEN, transaction, existingInvoice,
                   toDelete, customerId>>

\* updateInvoice rethrows (part_000 154-157, part_001 609-612); 500
UpdateInvoiceFails ==
    /\ Thrown({"invoiceTotal", "updateInvoice"})
    /\ RespondWith(500, ErrorProcessing, hist)
    /\ UNCHANGED <<ledger, ZOHO_ACCESS_TOKEN, locals>>

\* createPayment of part_001: the invoice arrives (619-634); an amount above
\* the balance is refused and the handler answers 400 (734-737)
InvoiceBalanceOk ==
    /\ call = "getInvoice" /\ mz.st = "axios"
    /\ customerId' = invoices[newInvoice].customer_id
    /\ LET invoiceBalance == invoices[newInvoice].balance IN
        /\ IF exceedsBalance(rp.amount, invoiceBalance)
           THEN /\ rp' = [rp EXCEPT !.balance = invoiceBalance,
                                    !.state = "refused"]
                /\ RespondWith(400, ExceedsBalance, hist)
           ELSE /\ rp' = [rp EXCEPT !.balance = invoiceBalance]
                /\ hist' = hist
                /\ Send("createPayment")
    /\ UNCHANGED <<ledger, ZOHO_ACCESS_TOKEN, transaction, existingInvoice,
                   toDelete, newInvoice>>

\* createPayment: the ledger created the payment of the full amount
\* (641-664); the handler responds (743)
PaymentCreated ==
    /\ call = "createPayment" /\ mz.st = "axios"
    /\ payments' = payments \cup
          {[payment_id |-> nextPaymentId,
            customer_id |-> customerId,
            amount |-> rp.amount,
            invoices |-> <<[invoice_id |-> newInvoice,
                            amount_applied |-> rp.amount]>>]}
    /\ nextPaymentId' = nextPaymentId + 1
    /\ invoices' = [invoices EXCEPT ![newInvoice].balance = @ - rp.amount]
    /\ rp' = [rp EXCEPT !.payment = rp.amount, !.state = "returned"]
    /\ RespondWith(200, Processed, hist)
    /\ UNCHANGED <<creditnotes, contacts, ZOHO_ACCESS_TOKEN, transaction,
                   existingInvoice, toDelete, customerId, newInvoice>>

\* createPayment rethrows (665-668); 500
CreatePaymentFails ==
    /\ Thrown({"getInvoice", "createPayment"})
    /\ rp' = [rp EXCEPT !.state = "raised"]
    /\ RespondWith(500, ErrorProcessing, hist)
    /\ UNCHANGED <<ledger, ZOHO_ACCESS_TOKEN, transaction, existingInvoice,
                   toDelete, customerId, newInvoice>>

NextUpdate ==
    \/ LookupReturns
    \/ LookupFails
    \/ FindPaymentOk
    \/ FindPaymentFails
    \/ PaymentDeleted
    \/ DeletePaymentFails
    \/ InvoiceTotalOk
    \/ UpdateInvoiceOk
    \/ UpdateInvoiceFails
    \/ InvoiceBalanceOk
    \/ PaymentCreated
    \/ CreatePaymentFails
    \/ TokenExpired
    \/ RequestFailed
    \/ RefreshOk
    \/ RefreshFailed

SpecUpdate == InitUpdate /\ [][NextUpdate]_vars

(***************************************************************************)
(* Two invocations of the handler of src/index.js in one process, for the  *)
(* transaction ids T1 and T2, against a ledger that is empty at first.     *)
(* Node runs one of them at a time and may change over at every await, so  *)
(* between two steps of one invocation any number of steps of the other    *)
(* may run.  The variables of the handler are those of the invocation that *)
(* runs; those of the other one are kept in hist.parked.  The access token *)
(* and the ledger are shared.                                              *)
(***************************************************************************)
Patients == {"P", "Q"}

ConcurrentTransaction(id, patient) ==
    [TransactionID |-> id, PatientName |-> patient, Services |-> <<"A">>,
     Prices |-> <<MaxAmount>>, PayableAmount |-> <<MaxAmount - 1>>,
     TotalAmountPaid |-> <<MaxAmount>>]

\* the invocation for t once the handler has called findExistingInvoice
\* (306-316)
Arrived(t) ==
    [transaction |-> t, call |-> "find",
     mz |-> [NoCall EXCEPT !.st = "axios",
                           !.Authorization = AuthorizationHeader(0),
                           !.requests = 1],
     existingInvoice |-> NoInvoice, toDelete |-> <<>>, customerId |-> 0,
     newInvoice |-> 0, rp |-> NoPayment, status |-> 0, log |-> <<"find">>,
     hist |-> NoHist]

Parking(h, context) ==
    [f \in DOMAIN h \cup {"parked"} |-> IF f = "parked" THEN context ELSE h[f]]
Unparked(h) == [f \in DOMAIN h \ {"parked"} |-> h[f]]

\* the invocation that runs
Running ==
    [transaction |-> transaction, call |-> call, mz |-> mz,
     existingInvoice |-> existingInvoice, toDelete |-> toDelete,
     customerId |-> customerId, newInvoice |-> newInvoice, rp |-> rp,
     status |-> status, log |-> log, hist |-> Unparked(hist)]

InitConc ==
    /\ invoices = <<>>
    /\ payments = {}
    /\ creditnotes = <<>>
    /\ contacts = <<>>
    /\ nextPaymentId = 1
    /\ ZOHO_ACCESS_TOKEN = 0
    /\ \E patient \in Patients :
        LET first == Arrived(ConcurrentTransaction("T1", "P"))
            second == Arrived(ConcurrentTransaction("T2", patient)) IN
        /\ transaction = first.transaction
        /\ hist = Parking(first.hist, second)
        /\ call = first.call
        /\ mz = first.mz
        /\ log = first.log
    /\ existingInvoice = NoInvoice
    /\ toDelete = <<>>
    /\ customerId = 0
    /\ newInvoice = 0
    /\ rp = NoPayment
    /\ status = 0

\* faulty variant: the retry flag is shared by the calls and set again
ResumedCallRetrying == [hist.parked.mz EXCEPT !.retry = TRUE]

\* the call the other invocation awaits: config and retry are arguments of
\* its own makeZohoRequest (38)
ResumedCall == hist.parked.mz

\* the invocation that runs awaits and the other one goes on
Switch ==
    /\ hist.parked.call # "done"
    /\ transaction' = hist.parked.transaction
    /\ call' = hist.parked.call
    /\ mz' = ResumedCall
    /\ existingInvoice' = hist.parked.existingInvoice
    /\ toDelete' = hist.parked.toDelete
    /\ customerId' = hist.parked.customerId
    /\ newInvoice' = hist.parked.newInvoice
    /\ rp' = hist.parked.rp
    /\ status' = hist.parked.status
    /\ log' = hist.parked.log
    /\ hist' = Parking(hist.parked.hist, Running)
    /\ UNCHANGED <<ledger, ZOHO_ACCESS_TOKEN>>

NextConc ==
    \/ Switch
    \/ FindInvoiceOk
    \/ FindCustomerOk
    \/ CreateCustomerOk
    \/ CreateInvoiceOk
    \/ GetInvoiceOk
    \/ CreatePaymentOk
    \/ CreateCreditNoteOk
    \/ TokenExpired
    \/ RequestFailed
    \/ RefreshOk
    \/ RefreshFailed
    \/ findExistingInvoiceCatch
    \/ createInvoiceCatch
    \/ recordPaymentCatch

SpecConc == InitConc /\ [][NextConc]_vars

(***************************************************************************)
(* createInvoice's request body on its own (src/index.js 193-211): the     *)
(* transaction has up to MaxServices services, the empty value among them, *)
(* up to MaxServices prices and a Discount field, and the body is built.   *)
(***************************************************************************)
MaxServices == 2

SeqsUpTo(S, n) == UNION {[1..k -> S] : k \in 0..n}

DiscountedTransactions ==
    [TransactionID : TxIds, PatientName : {"P"},
     Services : SeqsUpTo({"A", "B"}, MaxServices),
     Prices : SeqsUpTo(1..MaxAmount, MaxServices),
     PayableAmount : PayableFields,
     TotalAmountPaid : {<<>>},
     Discount : {<<>>, <<0>>, <<1>>}]

InitInvoiceData ==
    /\ invoices = <<>>
    /\ payments = {}
    /\ creditnotes = <<>>
    /\ contacts = <<"P">>
    /\ nextPaymentId = 1
    /\ ZOHO_ACCESS_TOKEN = 0
    /\ transaction \in DiscountedTransactions
    /\ call = "findCustomer"
    /\ mz = [NoCall EXCEPT !.st = "axios",
                           !.Authorization = AuthorizationHeader(ZOHO_ACCESS_TOKEN),
                           !.requests = 1]
    /\ existingInvoice = NoInvoice
    /\ toDelete = <<>>
    /\ customerId = 0
    /\ newInvoice = 0
    /\ rp = NoPayment
    /\ status = 0
    /\ log = <<"find", "findCustomer">>
    /\ hist = [built |-> FALSE, data |-> <<>>]

\* findOrCreateCustomer returned the contact and createInvoice builds the
\* body of POST /invoices and sends it (190-219)
BuildInvoiceData ==
    /\ call = "findCustomer" /\ mz.st = "axios"
    /\ \E c \in DOMAIN contacts :
        /\ contacts[c] = transaction.PatientName
        /\ customerId' = c
        /\ hist' = [built |-> TRUE, data |-> invoiceData(transaction, c)]
    /\ Send("createInvoice")
    /\ UNCHANGED <<ledger, ZOHO_ACCESS_TOKEN, transaction, existingInvoice,
                   toDelete, newInvoice, rp>>

NextInvoiceData == BuildInvoiceData

SpecInvoiceData == InitInvoiceData /\ [][NextInvoiceData]_vars

(***************************************************************************)
(* deletePaymentsForInvoice on its own (src/index.js 79-109, 65-76): the   *)
(* ledger holds invoice 1 of the transaction and invoice 2 of another one, *)
(* up to two payments applied to the first, one to the second and one to   *)
(* no invoice; the handler has found invoice 1 without line items and has  *)
(* called deletePaymentsForInvoice(1), which runs until it raises or until *)
(* voidInvoice has sent its request.                                       *)
(***************************************************************************)
\* the payments of ps that the ledger has applied to invoice i
LedgerApplied(ps, i) == {p \in ps : AppliesTo(p, i)}

\* an invoice of total MaxAmount to which the payments of applied are applied
PaidInvoice(ref, applied) ==
    [reference_number |-> ref, customer_id |-> 1, line_items |-> <<>>,
     total |-> MaxAmount, balance |-> MaxAmount - Cardinality(applied),
     status |-> "sent"]

LedgerPayments ==
    {[payment_id |-> id, customer_id |-> 1, amount |-> 1,
      invoices |-> <<[invoice_id |-> 2 - (id % 2), amount_applied |-> 1]>>] :
        id \in 1..3}
    \cup {[payment_id |-> 4, customer_id |-> 1, amount |-> 1, invoices |-> <<>>]}

InitDelete ==
    /\ payments \in SUBSET LedgerPayments
    /\ invoices = <<PaidInvoice("T1", LedgerApplied(payments, 1)),
                    PaidInvoice("T10", LedgerApplied(payments, 2))>>
    /\ creditnotes = <<>>
    /\ contacts = <<"P">>
    /\ nextPaymentId = 5
    /\ ZOHO_ACCESS_TOKEN = 0
    /\ transaction \in {t \in Transactions : t.TotalAmountPaid = <<>>}
    /\ call = "listPayments"
    /\ mz = [NoCall EXCEPT !.st = "axios",
                           !.Authorization = AuthorizationHeader(ZOHO_ACCESS_TOKEN),
                           !.requests = 1]
    /\ existingInvoice = Listed(1, FALSE)
    /\ toDelete = <<>>
    /\ customerId = 0
    /\ newInvoice = 0
    /\ rp = NoPayment
    /\ status = 0
    /\ log = <<"find", "listPayments">>
    /\ hist = Parking([NoHist EXCEPT !.lookup = "returned", !.response = <<1>>],
                      [payments |-> payments])

NextDelete ==
    \/ ListPaymentsOk
    \/ DeletePaymentOk
    \/ deletePaymentsForInvoiceCatch
    \/ TokenExpired
    \/ RequestFailed
    \/ RefreshOk
    \/ RefreshFailed

SpecDelete == InitDelete /\ [][NextDelete]_vars

(***************************************************************************)
(* One invocation under the assumption that requests return (src/index.js  *)
(* 306-402, 38-62).  The ledger is empty, or holds what earlier            *)
(* invocations left: invoice 1 of transaction T1, with or without line     *)
(* items, invoice 2 of another transaction, and up to two payments applied *)
(* to the first.  The webhook has arrived and findExistingInvoice has sent *)
(* its request.                                                            *)
(***************************************************************************)
InitInvocation ==
    /\ \/ /\ invoices = <<>>
          /\ payments = {}
          /\ contacts = <<>>
          /\ nextPaymentId = 1
       \/ /\ payments \in SUBSET LedgerPayments
          /\ \E t \in Transactions :
                invoices =
                    <<[PaidInvoice("T1", LedgerApplied(payments, 1))
                          EXCEPT !.line_items = lineItems(t)],
                      PaidInvoice("T10", LedgerApplied(payments, 2))>>
          /\ contacts = <<"P">>
          /\ nextPaymentId = 5
    /\ creditnotes = <<>>
    /\ ZOHO_ACCESS_TOKEN = 0
    /\ transaction \in Transactions
    /\ call = "find"
    /\ mz = [NoCall EXCEPT !.st = "axios",
                           !.Authorization = AuthorizationHeader(ZOHO_ACCESS_TOKEN),
                           !.requests = 1]
    /\ existingInvoice = NoInvoice
    /\ toDelete = <<>>
    /\ customerId = 0
    /\ newInvoice = 0
    /\ rp = NoPayment
    /\ status = 0
    /\ log = <<"find">>
    /\ hist = [NoHist EXCEPT !.replay = HoldsResultOf(transaction)]

\* every outbound request eventually returns a response or an error, and
\* the handler then runs up to its next await: an invocation that has
\* started does not wait for ever.  Nothing is assumed about which answer
\* a request gets.
SpecInvocation ==
    InitInvocation /\ [][Progress]_vars /\ WF_vars(Progress)

(***************************************************************************)
(* Properties.                                                             *)
(***************************************************************************)
Called(op) == \E k \in DOMAIN log : log[k] = op
Responded == call = "done"

\* C1: for every transaction id the ledger holds at most one non-voided
\* invoice whose reference_number is that id.
AtMostOneLiveInvoice ==
    \A ref \in TxIds : Cardinality(LiveInvoices(ref)) <= 1

\* C2: for a transaction with a priced service and a Payable Amount: when
\* the lookup returns, with its line items, the live invoice that an
\* earlier invocation built from the same transaction (its payment
\* attached), the invocation calls no ledger write and responds 200.
ReplayWritesNothing ==
    ( /\ existingInvoice.invoice_id \in hist.replay
      /\ existingInvoice.has_line_items
      /\ Len(transaction.Services) > 0
      /\ Len(transaction.Prices) = Len(transaction.Services)
      /\ transaction.PayableAmount # <<>> )
        => /\ \A k \in DOMAIN log : log[k] \notin WriteOps
           /\ Responded => status = 200

\* C3: a call whose first request and whose resubmitted request are both
\* rejected as unauthorized has sent exactly two requests, refreshed
\* exactly once, and has failed to its caller; it is not in flight any more.
RetryOnceBound ==
    (mz.first = "auth" /\ mz.second = "auth")
        => mz.st = "throw" /\ mz.requests = 2 /\ mz.refreshes = 1

RetryOnceBoundWitness ==
    mz.first = "auth" /\ mz.second = "auth" /\ mz.st = "throw"

\* C4: a makeZohoRequest call sends at most 2 requests and refreshes at
\* most once, and a second request is sent only after the first was
\* rejected as unauthorized and the refresh succeeded.
AtMostTwoAttempts ==
    /\ mz.requests <= 2
    /\ mz.refreshes <= 1
    /\ mz.requests = 2 => mz.first = "auth" /\ mz.refreshed /\ mz.refreshes = 1

AtMostTwoAttemptsWitness ==
    mz.requests = 2 /\ mz.st = "axios" /\ mz.first = "auth"

\* C5: once voidInvoice has been called, deletePaymentsForInvoice has
\* returned without raising, no payment listing or deletion follows the
\* void in the order of calls, and no payment that was found attached to
\* the invoice is still in the ledger.
PaymentBeforeVoid ==
    Called("void") =>
        /\ hist.deleteReturned /\ ~hist.deleteRaised
        /\ \A i, j \in DOMAIN log :
              (log[i] = "void" /\ log[j] \in {"listPayments", "deletePayment"})
                  => j < i
        /\ \A p \in payments : p.payment_id \notin hist.found

PaymentBeforeVoidWitness ==
    call = "void" /\ hist.found # {} /\ Called("deletePayment")

\* C6: when deletePaymentsForInvoice raises, the response is 500 and the
\* invocation has called neither the void nor the creation of a contact,
\* an invoice, a payment or a credit note.
DeleteFailureIsFatal ==
    hist.deleteRaised =>
        /\ Responded /\ status = 500
        /\ \A op \in {"void", "findCustomer", "createCustomer", "createInvoice",
                      "getInvoice", "createPayment", "createCreditNote"} :
              ~Called(op)

DeleteFailureIsFatalWitness ==
    hist.deleteRaised /\ log[Len(log)] = "deletePayment" /\ status = 500

\* C7: when voidInvoice fails the response is 500 and createInvoice is not
\* called; whenever createInvoice is called for a transaction whose
\* invoice was found, the void of that invoice has succeeded.
VoidBeforeReplacement ==
    /\ hist.voidRaised =>
          /\ Responded /\ status = 500
          /\ ~Called("findCustomer") /\ ~Called("createInvoice")
    /\ (existingInvoice.invoice_id # 0 /\ Called("findCustomer")) =>
          /\ hist.voidOk
          /\ invoices[existingInvoice.invoice_id].status = "void"

VoidBeforeReplacementWitness ==
    hist.voidRaised /\ status = 500

\* C8: a recordPayment call that returns with amount > balance has created
\* a payment of exactly balance and a credit note of exactly
\* amount - balance.
BalanceClamping ==
    (rp.state = "returned" /\ rp.amount > rp.balance)
        => rp.payment = rp.balance /\ rp.credit = rp.amount - rp.balance

\* C9: a recordPayment call with amount > balance never returns normally
\* having recorded neither a payment nor a credit note.
OverpaymentNotDropped ==
    (rp.state = "returned" /\ rp.amount > rp.balance)
        => rp.payment > 0 \/ rp.credit > 0

\* C10: the credit-note request is sent only when the requested amount
\* exceeds the applied amount and after the payment was created in the same
\* recordPayment call; with amount <= balance it is never sent.
CreditNoteOnlyForExcess ==
    /\ Called("createCreditNote") =>
          /\ rp.amount > Min(rp.amount, rp.balance)
          /\ rp.payment = Min(rp.amount, rp.balance) /\ rp.payment > 0
          /\ \E i, j \in DOMAIN log :
                i < j /\ log[i] = "createPayment" /\ log[j] = "createCreditNote"
    /\ (rp.state # "none" /\ Called("createPayment") /\ rp.amount <= rp.balance)
          => ~Called("createCreditNote")

CreditNoteOnlyForExcessWitness ==
    call = "createCreditNote" /\ mz.st = "axios"

\* C11: in every ledger state, every invoice a payment is applied to is
\* not voided.
NoPaymentOnVoidedInvoice ==
    \A p \in payments : \A k \in DOMAIN p.invoices :
        invoices[p.invoices[k].invoice_id].status # "void"

\* an invoice that had a payment was voided and the ledger holds a payment
NoPaymentOnVoidedInvoiceWitness ==
    /\ hist.voidOk /\ hist.found # {}
    /\ invoices[existingInvoice.invoice_id].status = "void"
    /\ payments # {}

\* the number of times op was called in this invocation
Count(op) == Cardinality({k \in DOMAIN log : log[k] = op})

\* C12: when the lookup finds no invoice, the invocation calls no payment
\* deletion and no void and posts at most one invoice; when it has answered
\* 200 it has posted exactly one invoice and has posted a payment for it
\* exactly when Total Amount Paid > 0; for Payable Amount MaxAmount - 1 and
\* Total Amount Paid MaxAmount the invoice has total MaxAmount - 1, the
\* payment applies MaxAmount - 1 to it and the credit note is for 1.
NoExistingInvoiceCreates ==
    (existingInvoice.invoice_id = 0 /\ Called("findCustomer")) =>
        /\ \A op \in {"listPayments", "deletePayment", "void"} : ~Called(op)
        /\ Count("createInvoice") <= 1
        /\ (Responded /\ status = 200) =>
              /\ Count("createInvoice") = 1
              /\ Called("createPayment")
                    <=> parseFloatOr0(transaction.TotalAmountPaid) > 0
              /\ ( /\ transaction.PayableAmount = <<MaxAmount - 1>>
                   /\ transaction.TotalAmountPaid = <<MaxAmount>> ) =>
                    /\ invoices[newInvoice].total = MaxAmount - 1
                    /\ \E p \in payments :
                          p.invoices = <<[invoice_id |-> newInvoice,
                                          amount_applied |-> MaxAmount - 1]>>
                    /\ creditnotes # <<>>
                    /\ creditnotes[Len(creditnotes)].rate = 1

\* op1 was called, and every call of it came before every call of op2
Before(op1, op2) ==
    /\ Called(op1)
    /\ \A i, j \in DOMAIN log : (log[i] = op1 /\ log[j] = op2) => i < j

\* C13: when the invoice found for the transaction has a total other than
\* the transaction's Payable Amount and the invocation has answered 200, it
\* has, in this order, listed and deleted every payment of that invoice,
\* voided it, posted one new invoice whose total is the new Payable Amount
\* and, when Total Amount Paid > 0, posted a payment applied to the new
\* invoice.
ChangedPayableReplaces ==
    LET old == existingInvoice.invoice_id
        payable == parseFloatOr0(transaction.PayableAmount)
        paid == parseFloatOr0(transaction.TotalAmountPaid) IN
    ( /\ old # 0
      /\ invoices[old].total # payable
      /\ Responded /\ status = 200 ) =>
        /\ Before("listPayments", "void")
        /\ \A i, j \in DOMAIN log :
              (log[i] = "deletePayment" /\ log[j] = "void") => i < j
        /\ paymentsForInvoice(payments, old) = {}
        /\ Before("void", "createInvoice")
        /\ invoices[old].status = "void"
        /\ Count("createInvoice") = 1
        /\ newInvoice # 0 /\ newInvoice # old
        /\ invoices[newInvoice].total = payable
        /\ invoices[newInvoice].status # "void"
        /\ paid > 0 =>
              /\ Before("createInvoice", "createPayment")
              /\ \E p \in payments : AppliesTo(p, newInvoice)

\* C14: a call whose token refresh failed has refreshed once and sent one
\* request, is not in flight any more but has failed to its caller, and
\* the stored credential is the one the call started with.
RefreshFailureIsFatal ==
    (mz.refreshes > 0 /\ ~mz.refreshed /\ mz.st # "refresh") =>
        /\ mz.st = "throw"
        /\ mz.refreshes = 1
        /\ mz.requests = 1
        /\ mz.second = "none"
        /\ ZOHO_ACCESS_TOKEN = mz.Authorization

\* a refresh failed after an earlier call had replaced the credential
RefreshFailureIsFatalWitness ==
    /\ mz.st = "throw" /\ mz.refreshes = 1 /\ ~mz.refreshed
    /\ ZOHO_ACCESS_TOKEN # 0

\* C15 as stated: a call that a failure other than an authorization
\* failure ended has sent exactly one request, has not refreshed and has
\* left the stored credential unchanged.
OtherFailureAfterOneRequest ==
    (mz.first = "err" \/ mz.second = "err") =>
        /\ mz.st = "throw"
        /\ mz.requests = 1 /\ mz.refreshes = 0
        /\ ZOHO_ACCESS_TOKEN = mz.Authorization

\* C15, amended: a failure other than an authorization failure ends the
\* call at once, with no refresh and no request after it.  When it answers
\* the first request the call has sent one request, has not refreshed and
\* the stored credential is unchanged; when it answers the resubmission the
\* call has sent two requests and refreshed once.
OtherFailureNotRetried ==
    /\ mz.first = "err" =>
          /\ mz.st = "throw"
          /\ mz.requests = 1 /\ mz.refreshes = 0 /\ mz.second = "none"
          /\ ZOHO_ACCESS_TOKEN = mz.Authorization
    /\ mz.second = "err" =>
          /\ mz.st = "throw"
          /\ mz.first = "auth"
          /\ mz.requests = 2 /\ mz.refreshes = 1

OtherFailureNotRetriedWitness ==
    mz.first = "err" /\ mz.st = "throw" /\ call = "createInvoice"

\* C16: a refresh is in progress only after the first request of the call
\* was rejected as unauthorized, never before an answer and never after
\* the resubmission; the stored credential changes only when a refresh
\* succeeds, and the resubmission carries the new one; every request of
\* every call carries the credential stored at that moment, and a call
\* waiting for the answer to its first request has not refreshed.
RefreshOnlyOnRejection ==
    /\ [](/\ mz.st = "refresh" =>
                /\ mz.first = "auth" /\ mz.second = "none"
                /\ mz.requests = 1 /\ mz.refreshes = 1
          /\ mz.refreshes > 0 => mz.first = "auth"
          /\ mz.requests > 0 => mz.Authorization = ZOHO_ACCESS_TOKEN
          /\ (mz.st = "axios" /\ mz.requests = 1) => mz.refreshes = 0)
    /\ [][ZOHO_ACCESS_TOKEN' # ZOHO_ACCESS_TOKEN =>
              /\ mz.st = "refresh" /\ mz'.st = "axios"
              /\ mz'.requests = 2
              /\ mz'.Authorization = ZOHO_ACCESS_TOKEN']_vars

\* a call made after a refresh replaced the credential carries the new one
RefreshOnlyOnRejectionWitness ==
    /\ ZOHO_ACCESS_TOKEN # 0
    /\ mz.st = "axios" /\ mz.requests = 1
    /\ mz.Authorization = ZOHO_ACCESS_TOKEN

\* the operations whose failure the handler's catch block answers
RethrowingOps == {"listPayments", "deletePayment", "void", "findCustomer",
                  "createCustomer", "createInvoice", "getInvoice",
                  "createPayment", "createCreditNote"}

\* C17: an invocation has answered exactly when its handler has finished;
\* the status is 500 when an exception reached the handler and 200 when
\* none did; a failure thrown to any operation other than the lookup is
\* answered by 500 in the next step, and once the response is sent the
\* status is not set again before the next invocation starts.
OneStructuredResponse ==
    /\ [](/\ status \in {0, 200, 500}
          /\ Responded <=> status # 0
          /\ Responded => mz = NoCall /\ (status = 500 <=> hist.raised)
          /\ hist.raised => Responded
          /\ mz.st = "throw" => call \in RethrowingOps \cup {"find"})
    /\ [][/\ (mz.st = "throw" /\ call \in RethrowingOps)
                => (call' = "done" /\ status' = 500)
          /\ status # 0 => (status' = status \/ Len(log') <= 1)]_vars

OneStructuredResponseWitness ==
    Responded /\ status = 500 /\ hist.raised /\ Called("createCreditNote")

\* C18: an invocation that has answered 200 after posting an invoice for a
\* transaction with Total Amount Paid > 0 has recorded that amount: a
\* payment is applied to the new invoice and what the payment does not
\* cover is in a credit note.
NeverHalfReconciled ==
    LET paid == parseFloatOr0(transaction.TotalAmountPaid) IN
    (Responded /\ status = 200 /\ Called("createInvoice") /\ paid > 0) =>
        /\ \E p \in payments : AppliesTo(p, newInvoice)
        /\ rp.payment + rp.credit = paid

\* C19: when the lookup failed, findExistingInvoice has returned null and
\* the handler has gone on to createInvoice (which starts with
\* findOrCreateCustomer): it has not answered 500 for the lookup and has
\* called no payment deletion and no void.
LookupFailureIsAbsence ==
    hist.lookup = "failed" =>
        /\ existingInvoice = NoInvoice
        /\ Len(log) >= 2 /\ log[1] = "find" /\ log[2] = "findCustomer"
        /\ \A op \in {"listPayments", "deletePayment", "void"} : ~Called(op)
        /\ (Responded /\ status = 500) => Len(log) > 1

LookupFailureIsAbsenceWitness ==
    /\ hist.lookup = "failed" /\ call = "createInvoice"
    /\ LiveInvoices(transaction.TransactionID) # {}

\* C20: when the lookup has returned, its result is the first invoice of
\* the response whose reference_number equals the transaction id, and null
\* when the response has no such invoice.
FirstExactMatch ==
    hist.lookup = "returned" =>
        LET response == hist.response
            id == transaction.TransactionID
            exact == {k \in DOMAIN response :
                        invoices[response[k]].reference_number = id} IN
        IF exact = {}
        THEN existingInvoice = NoInvoice
        ELSE /\ existingInvoice.invoice_id =
                    response[CHOOSE k \in exact : \A j \in exact : k <= j]
             /\ existingInvoice.reference_number = id

\* the response lists an invoice with another reference number first
FirstExactMatchWitness ==
    /\ hist.lookup = "returned" /\ Len(hist.response) >= 2
    /\ invoices[hist.response[1]].reference_number # transaction.TransactionID
    /\ existingInvoice.invoice_id = hist.response[2]

\* C21: in every version of findPaymentByInvoiceId and for every list of
\* payments the ledger returns, the result lists the given invoice among
\* its invoices, or it is null and no payment of the list lists it.
PaymentLookupListsInvoice ==
    hist.returned =>
        IF hist.result = NoLedgerPayment
        THEN \A k \in DOMAIN hist.response :
                ~AppliesTo(hist.response[k], hist.invoiceId)
        ELSE AppliesTo(hist.result, hist.invoiceId)

\* C22: in the update engines, once the deletion of the payment found on
\* the existing invoice has failed, updateInvoice has been called with the
\* current transaction (its first request is on its way or was answered)
\* and the request was not aborted on the failed deletion.
DeleteFailureNonFatal ==
    hist.deleteRaised =>
        \/ Called("invoiceTotal")
        \/ Called("updateInvoice")

\* C23: under the strict policy, when Total Amount Paid is found to exceed
\* the invoice balance, no payment is created, the webhook responds 400
\* with the message of the refusal, and 400 is the response in no other
\* case.
StrictOverpaymentRefused ==
    /\ (rp.state = "refused" <=> status = 400)
    /\ (call = "createPayment" \/ rp.state = "returned")
           => rp.amount <= rp.balance
    /\ status = 400 =>
           /\ call = "done"
           /\ rp.amount > rp.balance
           /\ hist.message = ExceedsBalance
           /\ ~Called("createPayment")
           /\ \A p \in payments : p.payment_id < 3

StrictOverpaymentRefusedWitness ==
    /\ status = 400
    /\ hist.deleteRaised
    /\ rp.amount = MaxAmount

\* C28: in the update-only engines, when no invoice exists for the
\* transaction id or the lookup fails, the invocation has written nothing
\* to the ledger and has responded 200 with the "no existing invoice"
\* message.
NoInvoiceNoWrites ==
    (hist.lookup = "failed"
       \/ (hist.lookup = "returned" /\ existingInvoice = NoInvoice)) =>
        /\ call = "done"
        /\ status = 200
        /\ hist.message = NoExistingInvoice
        /\ log = <<"find">>
        /\ <<invoices, payments>> = hist.before
        /\ creditnotes = <<>> /\ contacts = <<"P">>

NoInvoiceNoWritesWitness ==
    /\ hist.lookup = "failed"
    /\ status = 200
    /\ Len(invoices) = 1

\* C24: when voidInvoice is called with a missing invoice id, no void
\* request is sent, no replacement invoice is created and the webhook
\* returns a 400-class status.
MissingInvoiceIdIsValidationFailure ==
    (existingInvoice # NoInvoice /\ existingInvoice.invoice_id = 0
        /\ hist.voidRaised) =>
        /\ ~Called("void")
        /\ ~Called("findCustomer") /\ ~Called("createInvoice")
        /\ call = "done"
        /\ status \in 400..499

\* C25: whatever the interleaving of two invocations for different
\* transaction ids, the ledger holds what some sequential order leaves:
\* in particular the invoices (and the credit notes) of one patient name
\* are all for the same customer, as they are when one invocation follows
\* the other.
ConcurrentAsSequential ==
    /\ \A i, j \in InvoiceIds :
          contacts[invoices[i].customer_id] = contacts[invoices[j].customer_id]
              => invoices[i].customer_id = invoices[j].customer_id
    /\ \A c, d \in DOMAIN contacts : contacts[c] = contacts[d] => c = d

\* C26: the body createInvoice posts has one line item per service of the
\* transaction, in order, with the price of the same index as rate (0 when
\* there is none) and quantity 1, the Payable Amount as total and the
\* Transaction ID as reference_number, and carries an entity-level pre-tax
\* discount when the transaction's Discount is greater than 0.
InvoiceDataWithDiscount ==
    hist.built =>
        /\ Len(hist.data.line_items) = Len(transaction.Services)
        /\ \A k \in DOMAIN transaction.Services :
              /\ hist.data.line_items[k].description = transaction.Services[k]
              /\ hist.data.line_items[k].rate =
                    (IF k <= Len(transaction.Prices)
                     THEN transaction.Prices[k] ELSE 0)
              /\ hist.data.line_items[k].quantity = 1
        /\ hist.data.total = parseFloatOr0(transaction.PayableAmount)
        /\ hist.data.reference_number = transaction.TransactionID
        /\ parseFloatOr0(transaction.Discount) > 0 =>
              /\ "discount" \in DOMAIN hist.data
              /\ hist.data.discount = parseFloatOr0(transaction.Discount)
              /\ hist.data.discount_type = "entity_level"
              /\ hist.data.is_discount_before_tax

\* C27: findOrCreateCustomer posts a contact only when the search returned
\* none, so that no name has two contacts; the customer of createInvoice
\* is a contact of the patient's name; and when the search or the creation
\* fails, no invoice-creation request is sent and the response is 500.
FindOrCreateCustomer ==
    /\ call = "createCustomer" =>
          \A c \in DOMAIN contacts : contacts[c] # transaction.PatientName
    /\ \A c, d \in DOMAIN contacts : contacts[c] = contacts[d] => c = d
    /\ Called("createInvoice") =>
          /\ customerId \in DOMAIN contacts
          /\ contacts[customerId] = transaction.PatientName
    /\ (call = "done" /\ log # <<>>
            /\ log[Len(log)] \in {"findCustomer", "createCustomer"}) =>
          /\ status = 500
          /\ hist.raised
          /\ ~Called("createInvoice")

FindOrCreateCustomerWitness ==
    /\ status = 200
    /\ Called("createInvoice")
    /\ ~Called("createCustomer")
    /\ contacts = <<"P">>

NoLineItemsAlwaysRepairs ==
    (existingInvoice # NoInvoice /\ noLineItems(existingInvoice)) =>
        /\ Len(log) >= 2 /\ log[2] = "listPayments"
        /\ Called("createInvoice") => Before("void", "createInvoice")
        /\ status = 200 =>
              /\ Called("void") /\ Called("createInvoice")
              /\ parseFloatOr0(transaction.TotalAmountPaid) > 0 =>
                    /\ Before("createInvoice", "getInvoice")
                    /\ Called("createPayment")

\* the place of each ledger call of the update engines in the fixed order
StepRank(op) ==
    CASE op = "find" -> 1
      [] op = "findPayment" -> 2
      [] op = "deletePayment" -> 3
      [] op = "invoiceTotal" -> 4
      [] op = "updateInvoice" -> 5
      [] op = "getInvoice" -> 6
      [] op = "createPayment" -> 7

LookupReturnsLiveInvoice ==
    (/\ hist.lookup = "returned"
     /\ LiveInvoices(transaction.TransactionID) # {}
     /\ \E i \in InvoiceIds :
           /\ invoices[i].reference_number = transaction.TransactionID
           /\ ~Live(i)) =>
        existingInvoice.invoice_id \in LiveInvoices(transaction.TransactionID)

\* C33: with one call at a time, the step that sends the request again is
\* the step in which the refresh stores its credential, the resubmitted
\* request carries the credential stored by that step, and it still equals
\* the stored credential for as long as the call lasts.
RetryCarriesRefreshedCredential ==
    /\ [](mz.requests = 2 =>
              /\ mz.refreshed
              /\ mz.Authorization = ZOHO_ACCESS_TOKEN)
    /\ [][mz'.requests = 2 /\ mz.requests = 1 =>
              /\ mz.st = "refresh"
              /\ mz'.Authorization = ZOHO_ACCESS_TOKEN'
              /\ mz'.Authorization \in Tokens]_vars

\* the resubmission carries a credential other than the first one stored
RetryCarriesRefreshedCredentialWitness ==
    /\ mz.requests = 2 /\ mz.st = "axios"
    /\ mz.Authorization = MaxToken
    /\ log = <<"find">> /\ invoices = <<>>

\* C34: with two invocations interleaved, each makeZohoRequest call sends
\* at most two requests and refreshes at most once, a refresh is awaited
\* only between the first request and the resubmission, and the stored
\* credential changes only in the step in which some call's refresh
\* succeeds, to the credential that refresh returned (the last writer
\* wins).
ConcurrentCallsBounded ==
    /\ [](\A c \in {mz, hist.parked.mz} :
              /\ c.requests <= 2
              /\ c.refreshes <= 1
              /\ c.requests = 2 => c.refreshed /\ c.first = "auth"
              /\ c.st = "refresh" => c.requests = 1 /\ c.refreshes = 1)
    /\ [][ZOHO_ACCESS_TOKEN' # ZOHO_ACCESS_TOKEN =>
              /\ mz.st = "refresh" /\ mz'.st = "axios"
              /\ mz'.Authorization = ZOHO_ACCESS_TOKEN'
              /\ hist'.parked = hist.parked]_vars

\* the refreshes of both calls are in flight at once
ConcurrentCallsBoundedWitness ==
    /\ mz.st = "refresh"
    /\ hist.parked.mz.st = "refresh"

\* C35: deletePaymentsForInvoice(1) finds exactly the payments applied to
\* invoice 1, calls deletePayment once per payment deleted plus once for
\* the one being deleted or whose deletion failed, has deleted them all
\* when voidInvoice is called, and when it
\* has raised the payments it had not yet deleted are all still in the
\* ledger; the payments not applied to invoice 1, and the invoice they are
\* applied to, are as they were throughout.
DeletesExactlyInvoicePayments ==
    LET before == hist.parked.payments
        related == LedgerApplied(before, 1)
        deleted == before \ payments
        pending == {p \in before : \E k \in DOMAIN toDelete :
                                       toDelete[k] = p.payment_id}
    IN  /\ deleted \subseteq related
        /\ payments \subseteq before
        /\ invoices[2] = PaidInvoice("T10", LedgerApplied(before, 2))
        /\ invoices[1] = PaidInvoice("T1", related \ deleted)
        /\ (Called("deletePayment") \/ Called("void")) =>
              hist.found = {p.payment_id : p \in related}
        /\ Called("deletePayment") =>
              /\ related = deleted \cup pending
              /\ deleted \cap pending = {}
              /\ Count("deletePayment") =
                    Cardinality(deleted) + (IF pending # {} THEN 1 ELSE 0)
        /\ Called("void") => related = deleted /\ ~hist.deleteRaised
        /\ hist.deleteRaised =>
              /\ call = "done" /\ status = 500
              /\ ~Called("void")
              /\ pending \subseteq payments

\* the second deletion failed: one payment of the invoice is gone, one is
\* left, and so are the two payments that are not applied to it
DeletesExactlyInvoicePaymentsWitness ==
    /\ hist.deleteRaised
    /\ Count("deletePayment") = 2
    /\ Cardinality(payments) = 3
    /\ Cardinality(hist.parked.payments) = 4

\* createInvoice (findOrCreateCustomer included) failed after the void of
\* the existing invoice succeeded
CreateFailedAfterVoid ==
    /\ hist.voidOk /\ Responded /\ status = 500
    /\ newInvoice = 0

\* recordPayment failed after createInvoice returned the new invoice
PaymentFailedAfterCreate ==
    /\ rp.state = "raised" /\ newInvoice # 0

MaxCalls == 9 + Cardinality(hist.found)

\* C37: when every request eventually returns, an invocation makes no more
\* than MaxCalls ledger calls of at most two requests and one refresh
\* each, and an invocation that has started eventually sends its response.
InvocationTerminates ==
    /\ [](/\ Len(log) <= MaxCalls
          /\ mz.requests <= 2 /\ mz.refreshes <= 1)
    /\ (call \notin {"idle", "done"}) ~> Responded

\* an invocation that deleted two payments, voided, recreated and recorded
\* an overpayment has answered
InvocationTerminatesWitness ==
    /\ Responded
    /\ status = 200
    /\ Cardinality(hist.found) = 2
    /\ Called("createCreditNote")
    /\ Len(log) = MaxCalls - 1
====
